---------------------------- MODULE Spec2Model ----------------------------
(***************************************************************************)
(* Prompt acquisition subsystem of the validator (template/utils.py):      *)
(* the text normalizer (preprocess_string), the list extractor             *)
(* (extract_python_list), the LLM list fetcher (get_list, call_openai) and *)
(* the replenishing queue cache (update_counters_and_get_new_list,         *)
(* get_question) guarded by list_update_lock.                              *)
(*                                                                         *)
(* A Python str is a sequence of one-character strings.  A Python None is  *)
(* NoneStr where a str is expected and NoneList where a list is expected.  *)
(***************************************************************************)
EXTENDS Integers, Sequences, FiniteSets, TLC

(***************************************************************************)
(* Text helpers                                                            *)
(***************************************************************************)

NoneStr == <<"None">>

NoneList == << <<"None">> >>

\* The exception raised by the index no_comments_text[i + 1] (utils.py:269).
IndexError == <<"IndexError">>

QUOTE == "\""

APOS == "'"

\* The letters of the modelled alphabet: no Python keyword, constant name or
\* string prefix other than U can be written with them.
Letters == {"a", "c", "d", "S", "I", "N", "G", "L", "E", "Q", "U", "O", "T", "_"}

Digits == {"0", "1", "2", "3", "4", "5", "6", "7", "8", "9"}

\* \w of the re module
IsWord(ch) == ch \in Letters \cup Digits

\* \s of the re module, and the characters str.strip() removes
IsSpace(ch) == ch \in {" ", "\n", "\t", "\r"}

\* str.replace(old, "") for a one-character old
RemoveChar(text, ch) == SelectSeq(text, LAMBDA x : x # ch)

\* str.replace(old, new) for one-character old and new
ReplaceChar(text, old, new) ==
    [i \in 1..Len(text) |-> IF text[i] = old THEN new ELSE text[i]]

StartsWithAt(text, i, pat) ==
    /\ i + Len(pat) - 1 <= Len(text)
    /\ \A j \in 1..Len(pat) : text[i + j - 1] = pat[j]

RECURSIVE ReplaceFrom(_, _, _, _, _)
\* str.replace(old, new): leftmost non-overlapping occurrences, from index i
ReplaceFrom(text, old, new, i, acc) ==
    IF i > Len(text) THEN acc
    ELSE IF StartsWithAt(text, i, old)
         THEN ReplaceFrom(text, old, new, i + Len(old), acc \o new)
         ELSE ReplaceFrom(text, old, new, i + 1, Append(acc, text[i]))

Replace(text, old, new) == ReplaceFrom(text, old, new, 1, <<>>)

(***************************************************************************)
(* preprocess_string (utils.py:201-285)                                    *)
(***************************************************************************)

placeholder == <<"_", "_", "_", "S", "I", "N", "G", "L", "E", "_",
                 "Q", "U", "O", "T", "E", "_", "_", "_">>

\* (?<=\w)'(?=\w) matches at index i
ApostropheInWord(text, i) ==
    /\ text[i] = APOS
    /\ i > 1 /\ IsWord(text[i - 1])
    /\ i < Len(text) /\ IsWord(text[i + 1])

RECURSIVE SubApostrophes(_, _, _)
\* re.sub(r"(?<=\w)'(?=\w)", placeholder, text)
SubApostrophes(text, i, acc) ==
    IF i > Len(text) THEN acc
    ELSE IF ApostropheInWord(text, i)
         THEN SubApostrophes(text, i + 1, acc \o placeholder)
         ELSE SubApostrophes(text, i + 1, Append(acc, text[i]))

\* a quote step that turns every single quote into a double quote (the
\* fault ContractionKept excludes)
FixQuotesNaive(text) == ReplaceChar(RemoveChar(text, "\t"), APOS, QUOTE)

\* utils.py:202-205
FixQuotes(text) ==
    LET noTabs == RemoveChar(text, "\t")
        protected == SubApostrophes(noTabs, 1, <<>>)
    IN  Replace(ReplaceChar(protected, APOS, QUOTE), placeholder, <<APOS>>)

RECURSIVE StripCommentsWithQuote(_, _, _, _)
\* a comment stripper that drops the double quote that closes the comment
\* as well (the fault CommentsStripped excludes)
StripCommentsWithQuote(text, i, in_comment, acc) ==
    IF i > Len(text) THEN acc
    ELSE IF text[i] = "#" THEN StripCommentsWithQuote(text, i + 1, TRUE, acc)
    ELSE IF text[i] = QUOTE /\ in_comment
         THEN StripCommentsWithQuote(text, i + 1, FALSE, acc)
    ELSE IF ~in_comment
         THEN StripCommentsWithQuote(text, i + 1, FALSE, Append(acc, text[i]))
    ELSE StripCommentsWithQuote(text, i + 1, TRUE, acc)

RECURSIVE StripComments(_, _, _, _)
\* utils.py:207-221: a '#' opens a comment that the next '"' closes
StripComments(text, i, in_comment, acc) ==
    IF i > Len(text) THEN acc
    ELSE IF text[i] = "#" THEN StripComments(text, i + 1, TRUE, acc)
    ELSE IF text[i] = QUOTE /\ in_comment
         THEN StripComments(text, i + 1, FALSE, Append(acc, text[i]))
    ELSE IF ~in_comment
         THEN StripComments(text, i + 1, FALSE, Append(acc, text[i]))
    ELSE StripComments(text, i + 1, TRUE, acc)

RECURSIVE PrecededByCommaOrBracket(_, _)
\* utils.py:241-250, preceding_char_index = j
PrecededByCommaOrBracket(text, j) ==
    IF j < 1 THEN FALSE
    ELSE IF text[j] \in {"[", ","} THEN TRUE
    ELSE IF text[j] \notin {" ", "\n"} THEN FALSE
    ELSE PrecededByCommaOrBracket(text, j - 1)

RECURSIVE FollowingCharIndex(_, _)
\* utils.py:252-254
FollowingCharIndex(text, j) ==
    IF j <= Len(text) /\ text[j] \in {" ", "\n"}
    THEN FollowingCharIndex(text, j + 1)
    ELSE j

\* utils.py:256-257
StructuralQuote(text, i) ==
    LET f == FollowingCharIndex(text, i + 1)
    IN  \/ PrecededByCommaOrBracket(text, i - 1)
        \/ (f <= Len(text) /\ text[f] \in {"]", ","})

RECURSIVE CleanQuotes(_, _, _, _, _)
\* utils.py:224-274; the result is IndexError when no_comments_text[i + 1]
\* is read past the end of the text
CleanQuotes(text, i, inside_quotes, found_first_bracket, acc) ==
    IF i > Len(text) THEN acc
    ELSE LET char == text[i] IN
      IF ~found_first_bracket
      THEN CleanQuotes(text, i + 1, inside_quotes, char = "[", Append(acc, char))
      ELSE IF char = QUOTE
      THEN IF StructuralQuote(text, i)
           THEN CleanQuotes(text, i + 1, ~inside_quotes, TRUE, Append(acc, char))
           ELSE CleanQuotes(text, i + 1, inside_quotes, TRUE, acc)
      ELSE IF char = " " /\ ~inside_quotes
      THEN IF i = 1 \/ text[i - 1] \in {" ", ",", "["}
           THEN CleanQuotes(text, i + 1, inside_quotes, TRUE, acc)
           ELSE IF i = Len(text) THEN IndexError
           ELSE IF text[i + 1] \in {" ", ",", "]"}
           THEN CleanQuotes(text, i + 1, inside_quotes, TRUE, acc)
           ELSE CleanQuotes(text, i + 1, inside_quotes, TRUE, Append(acc, char))
      ELSE CleanQuotes(text, i + 1, inside_quotes, TRUE, Append(acc, char))

RECURSIVE SpaceRunEnd(_, _)
\* index of the first character at or after i that is not whitespace
SpaceRunEnd(text, i) ==
    IF i <= Len(text) /\ IsSpace(text[i]) THEN SpaceRunEnd(text, i + 1) ELSE i

RECURSIVE SubAfterBracket(_, _, _)
\* re.sub(r"\[\s+", "[", text)
SubAfterBracket(text, i, acc) ==
    IF i > Len(text) THEN acc
    ELSE IF text[i] = "["
         THEN SubAfterBracket(text, SpaceRunEnd(text, i + 1), Append(acc, "["))
         ELSE SubAfterBracket(text, i + 1, Append(acc, text[i]))

RECURSIVE SubBeforeBracket(_, _, _)
\* re.sub(r"\s+\]", "]", text)
SubBeforeBracket(text, i, acc) ==
    IF i > Len(text) THEN acc
    ELSE LET j == SpaceRunEnd(text, i) IN
         IF j > i /\ j <= Len(text) /\ text[j] = "]"
         THEN SubBeforeBracket(text, j + 1, Append(acc, "]"))
         ELSE SubBeforeBracket(text, i + 1, Append(acc, text[i]))

RECURSIVE SubCommas(_, _, _)
\* re.sub(r"\s*,\s*", ", ", text)
SubCommas(text, i, acc) ==
    IF i > Len(text) THEN acc
    ELSE LET j == SpaceRunEnd(text, i) IN
         IF j <= Len(text) /\ text[j] = ","
         THEN SubCommas(text, SpaceRunEnd(text, j + 1), acc \o <<",", " ">>)
         ELSE SubCommas(text, i + 1, Append(acc, text[i]))

RECURSIVE Find(_, _, _)
\* str.find(ch): least index >= i holding ch, 0 when there is none
Find(text, ch, i) ==
    IF i > Len(text) THEN 0
    ELSE IF text[i] = ch THEN i ELSE Find(text, ch, i + 1)

RECURSIVE RFind(_, _, _)
\* str.rfind(ch): greatest index <= i holding ch, 0 when there is none
RFind(text, ch, i) ==
    IF i < 1 THEN 0
    ELSE IF text[i] = ch THEN i ELSE RFind(text, ch, i - 1)

\* utils.py:281-283
TruncateToBrackets(text) ==
    LET start == Find(text, "[", 1)
        end == RFind(text, "]", Len(text))
    IN  IF start # 0 /\ end # 0 /\ end > start
        THEN SubSeq(text, start, end)
        ELSE text

\* utils.py:276-285: cleaned is the scan's result, or IndexError
FinishPreprocess(cleaned) ==
    IF cleaned = IndexError THEN IndexError
    ELSE TruncateToBrackets(
             SubCommas(
               SubBeforeBracket(
                 SubAfterBracket(cleaned, 1, <<>>), 1, <<>>), 1, <<>>))

\* utils.py:201-285; IndexError when the scan of utils.py:269 raises
preprocess_string(text) ==
    FinishPreprocess(
        CleanQuotes(StripComments(FixQuotes(text), 1, FALSE, <<>>),
                    1, FALSE, FALSE, <<>>))

(***************************************************************************)
(* convert_to_list (utils.py:288-291)                                      *)
(***************************************************************************)

RECURSIVE DigitRunEnd(_, _)
DigitRunEnd(text, i) ==
    IF i <= Len(text) /\ text[i] \in Digits THEN DigitRunEnd(text, i + 1) ELSE i

\* the index after a match of \d+\.\s that starts at i, 0 when there is none
MarkerEnd(text, i) ==
    LET j == DigitRunEnd(text, i) IN
    IF j > i /\ j + 1 <= Len(text) /\ text[j] = "." /\ IsSpace(text[j + 1])
    THEN j + 2
    ELSE 0

RECURSIVE Split(_, _, _, _)
\* re.split(r'\d+\.\s', text): cur is the piece being collected
Split(text, i, cur, acc) ==
    IF i > Len(text) THEN Append(acc, cur)
    ELSE IF MarkerEnd(text, i) # 0
         THEN Split(text, MarkerEnd(text, i), <<>>, Append(acc, cur))
         ELSE Split(text, i + 1, Append(cur, text[i]), acc)

RECURSIVE LStrip(_)
LStrip(text) ==
    IF text # <<>> /\ IsSpace(Head(text)) THEN LStrip(Tail(text)) ELSE text

RECURSIVE RStrip(_)
RStrip(text) ==
    IF text # <<>> /\ IsSpace(text[Len(text)])
    THEN RStrip(SubSeq(text, 1, Len(text) - 1))
    ELSE text

\* str.strip()
Strip(text) == RStrip(LStrip(text))

\* utils.py:288-291: empty pieces are dropped before the pieces are stripped
convert_to_list(text) ==
    LET pieces == SelectSeq(Split(text, 1, <<>>, <<>>), LAMBDA item : item # <<>>)
    IN  [i \in 1..Len(pieces) |-> Strip(pieces[i])]

(***************************************************************************)
(* The bracket search of utils.py:304: an opening bracket, then any number *)
(* of items that are either one character other than a bracket or a        *)
(* double-quoted span (with backslash escapes), then a closing bracket.    *)
(***************************************************************************)

RECURSIVE QuotedEnd(_, _)
\* the index of the double quote that closes a quoted span scanned from i
\* (a backslash escapes the next character), 0 on failure
QuotedEnd(text, i) ==
    IF i > Len(text) THEN 0
    ELSE IF text[i] = QUOTE THEN i
    ELSE IF text[i] = "\\"
         THEN IF i + 1 <= Len(text) THEN QuotedEnd(text, i + 2) ELSE 0
    ELSE QuotedEnd(text, i + 1)

\* the first of the alternatives a, b, c that matched (is not 0)
FirstMatch(a, b, c) == IF a # 0 THEN a ELSE IF b # 0 THEN b ELSE c

RECURSIVE GroupEnd(_, _)
\* Backtracking match of the items and the closing bracket from index p: the
\* index of the closing ']' of the first match in the engine's order of
\* preference (greedy repetition, first alternative first: a plain
\* character, then a quoted span, then no further item), 0 when nothing
\* matches.
GroupEnd(text, p) ==
    IF p > Len(text) THEN 0
    ELSE FirstMatch(
           IF text[p] \notin {"[", "]"} THEN GroupEnd(text, p + 1) ELSE 0,
           IF text[p] = QUOTE /\ QuotedEnd(text, p + 1) # 0
           THEN GroupEnd(text, QuotedEnd(text, p + 1) + 1) ELSE 0,
           IF text[p] = "]" THEN p ELSE 0)

\* <<s, e>> when the match from the '[' at s ends at e # 0
MatchAt(s, e) == IF e # 0 THEN <<s, e>> ELSE <<0, 0>>

RECURSIVE SearchFrom(_, _)
\* re.search: the leftmost '[' from which the pattern matches, as
\* <<start, end>>, or <<0, 0>>
SearchFrom(text, s) ==
    IF s > Len(text) THEN <<0, 0>>
    ELSE IF text[s] = "[" /\ GroupEnd(text, s + 1) # 0
         THEN MatchAt(s, GroupEnd(text, s + 1))
         ELSE SearchFrom(text, s + 1)

(***************************************************************************)
(* ast.literal_eval of a list display (utils.py:309), for the alphabet of  *)
(* Letters, Digits and the characters [ ] , . " ' # and whitespace.        *)
(* A str value is its characters; any other value is tagged: a number      *)
(* <<"<num>">> \o its token, Ellipsis, a nested list <<"<list>">> \o the   *)
(* values it holds.  Every SyntaxError or ValueError is ParseFail.         *)
(***************************************************************************)

ParseFail == [ok |-> FALSE, val |-> <<>>, pos |-> 0]

ParseOk(v, p) == [ok |-> TRUE, val |-> v, pos |-> p]

RECURSIVE SkipBlank(_, _)
\* whitespace and comments between the tokens of a bracketed expression
SkipBlank(src, p) ==
    IF p > Len(src) THEN p
    ELSE IF IsSpace(src[p]) THEN SkipBlank(src, p + 1)
    ELSE IF src[p] = "#"
         THEN LET nl == Find(src, "\n", p) IN
              IF nl = 0 THEN Len(src) + 1 ELSE SkipBlank(src, nl + 1)
    ELSE p

RECURSIVE ShortStringEnd(_, _, _)
\* closing quote of a one-line string literal, 0 when unterminated
ShortStringEnd(src, i, q) ==
    IF i > Len(src) \/ src[i] = "\n" THEN 0
    ELSE IF src[i] = q THEN i
    ELSE ShortStringEnd(src, i + 1, q)

RECURSIVE LongStringEnd(_, _, _)
\* first index of the closing triple quote, 0 when unterminated
LongStringEnd(src, i, q) ==
    IF i + 2 > Len(src) THEN 0
    ELSE IF StartsWithAt(src, i, <<q, q, q>>) THEN i
    ELSE LongStringEnd(src, i + 1, q)

\* one string literal whose opening quote is at p
StringToken(src, p) ==
    LET q == src[p] IN
    IF StartsWithAt(src, p, <<q, q, q>>)
    THEN LET e == LongStringEnd(src, p + 3, q) IN
         IF e = 0 THEN ParseFail ELSE ParseOk(SubSeq(src, p + 3, e - 1), e + 3)
    ELSE LET e == ShortStringEnd(src, p + 1, q) IN
         IF e = 0 THEN ParseFail ELSE ParseOk(SubSeq(src, p + 1, e - 1), e + 1)

\* index of the opening quote of a string literal that starts at p (after an
\* optional u/U prefix), 0 when no string literal starts at p
StringStart(src, p) ==
    IF p > Len(src) THEN 0
    ELSE IF src[p] \in {QUOTE, APOS} THEN p
    ELSE IF src[p] \in {"u", "U"} /\ p + 1 <= Len(src) /\ src[p + 1] \in {QUOTE, APOS}
         THEN p + 1
    ELSE 0

RECURSIVE StringLiterals(_, _, _)
RECURSIVE AfterStringToken(_, _, _)

\* tok is the string literal just read
AfterStringToken(src, acc, tok) ==
    IF ~tok.ok THEN ParseFail
    ELSE IF StringStart(src, SkipBlank(src, tok.pos)) # 0
         THEN StringLiterals(src, SkipBlank(src, tok.pos), acc \o tok.val)
         ELSE ParseOk(acc \o tok.val, tok.pos)

\* adjacent string literals are concatenated
StringLiterals(src, p, acc) ==
    AfterStringToken(src, acc, StringToken(src, StringStart(src, p)))

RECURSIVE DigitPartEnd(_, _)
\* digit (["_"] digit)* : i is the index after a digit already read
DigitPartEnd(src, i) ==
    IF i <= Len(src) /\ src[i] \in Digits THEN DigitPartEnd(src, i + 1)
    ELSE IF i + 1 <= Len(src) /\ src[i] = "_" /\ src[i + 1] \in Digits
         THEN DigitPartEnd(src, i + 2)
    ELSE i

\* the index after the fraction whose '.' is at dot
FractionEnd(src, dot) ==
    IF dot + 1 <= Len(src) /\ src[dot + 1] \in Digits
    THEN DigitPartEnd(src, dot + 2)
    ELSE dot + 1

\* the token src[p..end-1], whose integer part is src[p..intEnd-1]
NumberFrom(src, p, intEnd, hasDot, end) ==
    IF intEnd = p /\ StartsWithAt(src, p, <<".", ".", ".">>)
    THEN ParseOk(<<"<Ellipsis>">>, p + 3)
    ELSE IF intEnd = p /\ (~hasDot \/ end = intEnd + 1) THEN ParseFail
    ELSE IF /\ ~hasDot /\ intEnd - p > 1 /\ src[p] = "0"
            /\ \E j \in p..(intEnd - 1) : src[j] \notin {"0", "_"}
         THEN ParseFail
    ELSE IF end <= Len(src) /\ IsWord(src[end]) THEN ParseFail
    ELSE ParseOk(<<"<num>">> \o SubSeq(src, p, end - 1), end)

\* intEnd is the index after the digits that start at p
NumberWithInt(src, p, intEnd) ==
    IF intEnd <= Len(src) /\ src[intEnd] = "."
    THEN NumberFrom(src, p, intEnd, TRUE, FractionEnd(src, intEnd))
    ELSE NumberFrom(src, p, intEnd, FALSE, intEnd)

\* a number token or the Ellipsis that starts at p
NumberToken(src, p) ==
    NumberWithInt(src, p, IF src[p] \in Digits THEN DigitPartEnd(src, p + 1) ELSE p)

RECURSIVE ParseValue(_, _)
RECURSIVE ParseElements(_, _, _)

RECURSIVE AfterElement(_, _, _, _)
RECURSIVE ElementsAt(_, _, _)

\* v is the element just read and r the index of the token after it
AfterElement(src, acc, v, r) ==
    IF ~v.ok \/ r > Len(src) THEN ParseFail
    ELSE IF src[r] = "," THEN ParseElements(src, r + 1, Append(acc, v.val))
    ELSE IF src[r] = "]" THEN ParseOk(Append(acc, v.val), r + 1)
    ELSE ParseFail

\* v is the element just read
AfterValue(src, acc, v) ==
    AfterElement(src, acc, v, IF v.ok THEN SkipBlank(src, v.pos) ELSE 0)

\* q is the index of the next token
ElementsAt(src, q, acc) ==
    IF q > Len(src) THEN ParseFail
    ELSE IF src[q] = "]" THEN ParseOk(acc, q + 1)
    ELSE AfterValue(src, acc, ParseValue(src, q))

\* the elements of a list display from p (after '[' or ','), up to its ']'
ParseElements(src, p, acc) == ElementsAt(src, SkipBlank(src, p), acc)

RECURSIVE Flatten(_)
Flatten(vals) ==
    IF vals = <<>> THEN <<>> ELSE Head(vals) \o <<"<,>">> \o Flatten(Tail(vals))

\* inner is the list display just read
NestedList(inner) ==
    IF ~inner.ok THEN ParseFail
    ELSE ParseOk(<<"<list>">> \o Flatten(inner.val), inner.pos)

\* one literal at p: strings, a number, Ellipsis or a nested list
ParseValue(src, p) ==
    IF StringStart(src, p) # 0 THEN StringLiterals(src, p, <<>>)
    ELSE IF src[p] \in Digits \cup {"."} THEN NumberToken(src, p)
    ELSE IF src[p] = "[" THEN NestedList(ParseElements(src, p + 1, <<>>))
    ELSE ParseFail

\* r is the list display read from the start of src
WholeList(src, r) ==
    IF r.ok /\ SkipBlank(src, r.pos) > Len(src) THEN r.val ELSE NoneList

\* ast.literal_eval(src) followed by isinstance(evaluated, list), for a src
\* that starts with '[': the list, or NoneList when the evaluation raises or
\* yields something that is not a list
literal_eval_list(src) == WholeList(src, ParseElements(src, 2, <<>>))

(***************************************************************************)
(* extract_python_list (utils.py:294-316)                                  *)
(***************************************************************************)

\* an extractor that answers a text without a list with the empty list (the
\* fault NoListGivesNone excludes)
EvaluateEmptyOnMiss(text, match) ==
    IF match[1] = 0 THEN <<>>
    ELSE literal_eval_list(
             <<"[">> \o SubSeq(text, match[1] + 1, match[2] - 1) \o <<"]">>)

\* utils.py:305-311: match is the span re.search found in text
EvaluateMatch(text, match) ==
    IF match[1] = 0 THEN NoneList
    ELSE literal_eval_list(
             <<"[">> \o SubSeq(text, match[1] + 1, match[2] - 1) \o <<"]">>)

\* an extractor without its except clause: what preprocess_string raised
\* reaches the caller (the fault ExtractNeverRaises excludes)
ExtractUnguarded(processed) ==
    IF processed = IndexError THEN <<IndexError>>
    ELSE EvaluateMatch(processed, SearchFrom(processed, 1))

\* utils.py:304-316: processed is what preprocess_string returned or raised
ExtractFrom(processed) ==
    IF processed = IndexError THEN NoneList
    ELSE EvaluateMatch(processed, SearchFrom(processed, 1))

extract_python_list(text) ==
    IF MarkerEnd(text, 1) # 0 THEN convert_to_list(text)
    ELSE ExtractFrom(preprocess_string(text))

(***************************************************************************)
(* Bounds of the model and constants of the program                        *)
(***************************************************************************)

\* number of concurrent callers; each makes one call
NumTasks == 2

\* length of each default theme pool
PoolLen == 1

\* utils.py:117
max_retries == 5

\* utils.py:320
ProviderAttempts == 2

\* utils.py:85-86: complexity and relevance levels of the question pool
Levels == 20

Tasks == 1..NumTasks

NoTask == 0

Categories == {"text", "images"}

Kinds == {"themes", "questions"}

\* a category get_question rejects
InvalidCategory == "audio"

\* the quantities callers ask for
NeededValues == {0, 15}

\* the quantity passed with a call for themes, which never reads it
ThemesNeeded == 0

\* replies the provider may give: a list of two elements, an empty list,
\* and prose without a list
ReplyList == <<"[", QUOTE, "a", QUOTE, ",", " ", QUOTE, "c", QUOTE, "]">>

ReplyEmptyList == <<"[", "]">>

ReplyProse == <<"a", " ", "c">>

ProviderReplies == {ReplyList, ReplyEmptyList, ReplyProse}

\* template.INSTRUCT_DEFAULT_THEMES and template.IMAGE_THEMES at process start
DefaultThemes ==
    [category \in Categories |->
        [n \in 1..PoolLen |->
            [j \in 1..n |-> IF category = "text" THEN "a" ELSE "c"]]]

\* state[category][item_type] holds None, a list of its own, or the very list
\* object of the category's default theme pool (utils.py:169, 183)
PoolRef == << <<"PoolRef">> >>

\* a list as a state file may hold it
Stock(n) == [j \in 1..n |-> IF j % 2 = 1 THEN <<"a">> ELSE <<"c">>]

(***************************************************************************)
(* State                                                                   *)
(***************************************************************************)

VARIABLES
    state,             \* utils.py:37 state: category -> item_type -> cell
    pools,             \* the default theme pool lists of the template package
    list_update_lock,  \* utils.py:22: the task holding the lock, or NoTask
    pc,                \* where each task stands
    call,              \* the arguments of each task's call
    fetch,             \* the locals of each task's get_list
    result,            \* how each task's call ended
    loaded,            \* the state as load_state_from_file created it
    text,              \* the string handed to preprocess_string and extract_python_list
    written,           \* how text was written: its kind, its items, its layout
    processed_text,    \* utils.py:205: preprocess_string's local after the quote step
    no_comments_text,  \* utils.py:208-221: its local after the comments are removed
    normalized,        \* what preprocess_string(text) returned or raised
    renormalized,      \* what preprocess_string returned for its own result
    extracted,         \* what extract_python_list(text) returned
    selection,         \* utils.py:82-113: get_list's arguments, the outcome of
                       \* random.shuffle, the prompts selected, the calls made
    extractions        \* utils.py:294-316: what extract_python_list returns for
                       \* each answer get_list can hand to it

queueVars == <<state, pools, list_update_lock, pc, call, fetch, result, loaded>>

textVars ==
    <<text, written, processed_text, no_comments_text, normalized, renormalized,
      extracted>>

vars == <<state, pools, list_update_lock, pc, call, fetch, result, loaded,
          text, written, processed_text, no_comments_text, normalized,
          renormalized, extracted, selection, extractions>>

\* a function that has not been applied yet
NotRun == <<"NotRun">>

NotRunList == << <<"NotRun">> >>

\* the input of a process that applies none of the extractor's functions
NoInput == [kind |-> "none", items |-> <<>>, layout |-> <<>>, text |-> <<>>]

\* the extractor's variables before any of its functions is applied to input
TextInit(input) ==
    /\ text = input.text
    /\ written = [kind |-> input.kind, items |-> input.items, layout |-> input.layout]
    /\ processed_text = NotRun
    /\ no_comments_text = NotRun
    /\ normalized = NotRun
    /\ renormalized = NotRun
    /\ extracted = NotRunList

\* bool(x) of a list or None
Truthy(x) == x # NoneList /\ x # <<>>

\* the list a cell refers to
Items(category, item_type) ==
    IF state[category][item_type] = PoolRef
    THEN pools[category]
    ELSE state[category][item_type]

NoCall == [category |-> "", item_type |-> "", num_questions_needed |-> 0]

NoResult == [outcome |-> "pending", value |-> NoneStr, index |-> 0]

Returned(item, index) == [outcome |-> "returned", value |-> item, index |-> index]

Raised(error) == [outcome |-> "raised", value |-> <<error>>, index |-> 0]

(***************************************************************************)
(* call_openai (utils.py:319-337)                                          *)
(***************************************************************************)

\* a call: the attempts that have failed while it is in flight, whether it
\* has returned, and what it returned
NewCall(temperature, model) ==
    [failed |-> 0, done |-> FALSE, response |-> NoneStr,
     temperature |-> temperature, model |-> model]

NoCallInFlight == [failed |-> 0, done |-> TRUE, response |-> NoneStr,
                   temperature |-> 0, model |-> ""]

\* a loop that makes one attempt more (the fault TwoProviderAttempts excludes)
ExhaustedAfterOneMore(failed) == failed >= ProviderAttempts + 1

\* utils.py:320: the loop ends after ProviderAttempts failed attempts
AttemptsExhausted(failed) == failed >= ProviderAttempts

\* utils.py:323-331: the attempt succeeds and its content is returned
AttemptSucceeds(c, reply) == [c EXCEPT !.failed = 0, !.done = TRUE, !.response = reply]

\* utils.py:333-337: the attempt raises; after the sleep the loop goes on, or
\* ends with None
AttemptFails(c) ==
    IF AttemptsExhausted(c.failed + 1)
    THEN [c EXCEPT !.failed = 0, !.done = TRUE, !.response = NoneStr]
    ELSE [c EXCEPT !.failed = c.failed + 1]

(***************************************************************************)
(* get_list (utils.py:69-148)                                              *)
(***************************************************************************)

\* utils.py:163: f"{category}_questions"
ListType(category) == IF category = "text" THEN "text_questions" ELSE "images_questions"

\* utils.py:70
prompts_in_question(list_type) == IF list_type = "text_questions" THEN 10 ELSE 20

\* a division that rounds down (the fault InitialInstructions excludes)
Floor(a, b) == a \div b

\* math.ceil(a / b) for a >= 0, b > 0
Ceil(a, b) == (a + b - 1) \div b

Min(a, b) == IF a <= b THEN a ELSE b

\* utils.py:84-95: the pool holds one prompt per (complexity, relevance)
question_pool == (1..Levels) \X (1..Levels)

\* utils.py:98-104
num_questions_to_select(list_type, num_questions_needed) ==
    IF list_type = "text_questions"
    THEN Min(Ceil(num_questions_needed, prompts_in_question(list_type)),
             Cardinality(question_pool))
    ELSE Ceil(num_questions_needed, prompts_in_question(list_type))

\* utils.py:85-95: the prompt appended to the pool after q others
PoolAt(q) == <<(q \div Levels) + 1, (q % Levels) + 1>>

\* utils.py:97: the outcomes of random.shuffle the model follows, each as
\* <<a, b>>: the shuffled pool holds at position p the prompt that was
\* appended after (a * (p - 1) + b) % 400 others
Shuffles == {<<1, 0>>, <<7, 13>>, <<Levels * Levels - 1, Levels + 1>>}

Shuffled(shuffle) ==
    [p \in 1..Cardinality(question_pool) |->
        PoolAt((shuffle[1] * (p - 1) + shuffle[2]) % Cardinality(question_pool))]

\* get_list has not been called on its own
NoSelection ==
    [list_type |-> "", num_questions_needed |-> 0, theme |-> NoneStr,
     shuffle |-> <<7, 13>>, selected |-> FALSE, selected_prompts |-> <<>>,
     tasks |-> <<>>]

\* utils.py:97-102: the pool as shuffled; random.sample takes its prompts
\* from the front
SampleDraw == Shuffled(selection.shuffle)

\* utils.py:102: random.sample draws k prompts without replacement
Sample(k) == SubSeq(SampleDraw, 1, k)

\* utils.py:82-105: the prompts as <<list_type, theme, complexity, relevance>>
SelectedPromptsOf(list_type, theme, k) ==
    IF list_type = "text_questions"
    THEN [i \in 1..k |-> <<list_type, theme, Sample(k)[i][1], Sample(k)[i][2]>>]
    ELSE [i \in 1..k |-> <<list_type, theme, 0, 0>>]

SelectedPrompts(list_type, num_questions_needed, theme) ==
    SelectedPromptsOf(list_type, theme,
                      num_questions_to_select(list_type, num_questions_needed))

\* get_list's locals: the calls of the gather while they run and the order
\* in which they returned, the responses still to be processed, the retry
\* call in flight, the list built so far and, for each of its elements, the
\* index of the prompt it was extracted for (origins) and whether the reply
\* came from the initial call or from a retry (via); then what get_list
\* returned
NoFetch ==
    [theme |-> NoneStr, selected_prompts |-> <<>>, calls |-> <<>>, order |-> <<>>,
     responses |-> <<>>, i |-> 0, retry |-> 0, rcall |-> NoCallInFlight,
     extracted_lists |-> <<>>, origins |-> <<>>, via |-> <<>>,
     finished |-> FALSE, returned |-> NoneList]

\* utils.py:110-113: one call per prompt, temperature 0.65, gpt-3.5-turbo
StartFetch(theme, prompts) ==
    [NoFetch EXCEPT !.theme = theme, !.selected_prompts = prompts,
                    !.calls = [i \in 1..Len(prompts) |-> NewCall(65, "gpt-3.5-turbo")],
                    !.i = 1]

\* responses taken in the order in which the calls returned (the fault
\* InstructionOrder excludes)
CompletionIndex(f, i) == f.order[i]

\* utils.py:115: gather returns the responses in the order of the awaitables;
\* the index of the call whose response is the i-th one
GatherIndex(f, i) == i

\* utils.py:120, 131
Answer(response) ==
    IF response = NoneStr \/ response = <<>> THEN <<>>
    ELSE ReplaceChar(response, "\n", " ")

\* extract_python_list on the answers get_list can hand to it: the function
\* is pure, and its results are computed once
Extractions == [answer \in {Answer(r) : r \in ProviderReplies \cup {NoneStr}} |->
                   extract_python_list(answer)]

\* utils.py:121, 132
Extract(response) == extractions[Answer(response)]

\* the list as collected, empty or not (the fault AbsentIffNothingCollected
\* excludes)
ListAsCollected(extracted_lists) == extracted_lists

\* utils.py:144-148
GetListResult(extracted_lists) ==
    IF ~Truthy(extracted_lists) THEN NoneList ELSE extracted_lists

\* a retry made like the initial calls (the fault InitialThenEscalated
\* excludes)
SameCallAgain == NewCall(65, "gpt-3.5-turbo")

\* utils.py:130: a retry call, temperature 0.85, gpt-4-1106-preview
NewRetryCall == NewCall(85, "gpt-4-1106-preview")

\* a loop with one round more (the fault AtMostFiveRetries excludes)
OneMoreRetry(retry) == retry < max_retries

\* utils.py:126: the loop over range(max_retries) has further rounds
RetriesLeft(retry) == retry + 1 < max_retries

\* a retry loop that goes on until a reply holds a list (the fault
\* ProviderCallsBounded excludes)
RetryUntilList(f, new_answer) ==
    LET new_extracted_list == Extract(new_answer) IN
    IF Truthy(new_extracted_list)
    THEN [f EXCEPT !.extracted_lists = @ \o new_extracted_list,
                   !.origins = @ \o [j \in 1..Len(new_extracted_list) |-> f.i],
                   !.via = @ \o [j \in 1..Len(new_extracted_list) |-> "retry"],
                   !.i = f.i + 1, !.retry = 0, !.rcall = NoCallInFlight]
    ELSE [f EXCEPT !.retry = IF RetriesLeft(f.retry) THEN f.retry + 1 ELSE 0,
                   !.rcall = NewRetryCall]

\* utils.py:131-136 and the loops around them: get_list's locals after the
\* retry call in flight has returned new_answer
AfterRetry(f, new_answer) ==
    LET new_extracted_list == Extract(new_answer) IN
    IF Truthy(new_extracted_list)
    THEN [f EXCEPT !.extracted_lists = @ \o new_extracted_list,
                   !.origins = @ \o [j \in 1..Len(new_extracted_list) |-> f.i],
                   !.via = @ \o [j \in 1..Len(new_extracted_list) |-> "retry"],
                   !.i = f.i + 1, !.retry = 0, !.rcall = NoCallInFlight]
    ELSE IF RetriesLeft(f.retry)
    THEN [f EXCEPT !.retry = f.retry + 1, !.rcall = NewRetryCall]
    ELSE [f EXCEPT !.i = f.i + 1, !.retry = 0, !.rcall = NoCallInFlight]

(***************************************************************************)
(* update_counters_and_get_new_list and get_question (utils.py:151-198)    *)
(***************************************************************************)

\* a lock that lets every task in (the fault OneRegenerationInFlight and
\* WritesUnderLock exclude)
NeverLocked == TRUE

\* asyncio.Lock.locked() is false
LockFree == list_update_lock = NoTask

\* a take that leaves the item in the list (the fault ExactlyOnce excludes)
ListKeep(items) == items

\* a pop that leaves the list without its first element (the fault
\* CachedTake excludes)
ListPopFirst(items) == Tail(items)

\* list.pop() on a non-empty list: what is left of the list
ListPop(items) == SubSeq(items, 1, Len(items) - 1)

\* utils.py:186-188 on the list the cell refers to
PopFrom(t, category, item_type) ==
    LET items == Items(category, item_type)
        left == IF Truthy(items) THEN ListPop(items) ELSE items
        item == IF Truthy(items) THEN items[Len(items)] ELSE NoneStr
    IN  /\ result' = [result EXCEPT ![t] =
                         Returned(item, IF Truthy(items) THEN Len(items) ELSE 0)]
        /\ pools' = IF state[category][item_type] = PoolRef
                    THEN [pools EXCEPT ![category] = left]
                    ELSE pools
        /\ state' = [state EXCEPT ![category][item_type] =
                        IF ~Truthy(left) THEN NoneList
                        ELSE IF @ = PoolRef THEN PoolRef ELSE left]

\* a get_question without its check of the category (the fault
\* InvalidCategoryRejected excludes)
get_question_unchecked(t, category, num_questions_needed) ==
    /\ pc[t] = "idle"
    /\ pc' = [pc EXCEPT ![t] = "acquire"]
    /\ call' = [call EXCEPT ![t] =
           [category |-> category, item_type |-> "questions",
            num_questions_needed |-> num_questions_needed]]
    /\ UNCHANGED <<state, pools, list_update_lock, fetch, result, loaded>>
    /\ UNCHANGED <<textVars, selection, extractions>>

\* utils.py:193-198
get_question(t, category, num_questions_needed) ==
    /\ pc[t] = "idle"
    /\ IF category \notin Categories
       THEN /\ pc' = [pc EXCEPT ![t] = "done"]
            /\ result' = [result EXCEPT ![t] = Raised("ValueError")]
            /\ UNCHANGED call
       ELSE /\ pc' = [pc EXCEPT ![t] = "acquire"]
            /\ call' = [call EXCEPT ![t] =
                   [category |-> category, item_type |-> "questions",
                    num_questions_needed |-> num_questions_needed]]
            /\ UNCHANGED result
    /\ UNCHANGED <<state, pools, list_update_lock, fetch, loaded>>
    /\ UNCHANGED <<textVars, selection, extractions>>

\* utils.py:151-172: a direct call, up to the lock
update_counters_and_get_new_list(t, category, item_type, num_questions_needed) ==
    /\ pc[t] = "idle"
    /\ pc' = [pc EXCEPT ![t] = "acquire"]
    /\ call' = [call EXCEPT ![t] =
           [category |-> category, item_type |-> item_type,
            num_questions_needed |-> num_questions_needed]]
    /\ UNCHANGED <<state, pools, list_update_lock, fetch, result, loaded>>
    /\ UNCHANGED <<textVars, selection, extractions>>

\* utils.py:174: async with list_update_lock
Acquire(t) ==
    /\ pc[t] = "acquire"
    /\ LockFree
    /\ list_update_lock' = t
    /\ pc' = [pc EXCEPT ![t] = "locked"]
    /\ UNCHANGED <<state, pools, call, fetch, result, loaded>>
    /\ UNCHANGED <<textVars, selection, extractions>>

\* utils.py:175-181: the cell holds items
FoundItems(t) ==
    /\ pc[t] = "locked"
    /\ Truthy(Items(call[t].category, call[t].item_type))
    /\ pc' = [pc EXCEPT ![t] = "pop"]
    /\ UNCHANGED <<state, pools, list_update_lock, call, fetch, result, loaded>>
    /\ UNCHANGED <<textVars, selection, extractions>>

\* a refill of the themes cell that asks get_list for themes (the fault
\* ThemesNeverFetched excludes)
RefillThemesByFetch(t) ==
    /\ pc[t] = "locked"
    /\ call[t].item_type = "themes"
    /\ ~Truthy(Items(call[t].category, "themes"))
    /\ fetch' = [fetch EXCEPT ![t] =
           StartFetch(<<"a">>,
                      SelectedPrompts(ListType(call[t].category), 15, <<"a">>))]
    /\ pc' = [pc EXCEPT ![t] = "gather"]
    /\ UNCHANGED <<state, pools, list_update_lock, call, result, loaded>>
    /\ UNCHANGED <<textVars, selection, extractions>>

\* utils.py:181-184 with 154-157: an empty themes cell is set to the
\* category's default pool list itself
RefillThemes(t) ==
    /\ pc[t] = "locked"
    /\ call[t].item_type = "themes"
    /\ ~Truthy(Items(call[t].category, "themes"))
    /\ state' = [state EXCEPT ![call[t].category]["themes"] = PoolRef]
    /\ pc' = [pc EXCEPT ![t] = "pop"]
    /\ UNCHANGED <<pools, list_update_lock, call, fetch, result, loaded>>
    /\ UNCHANGED <<textVars, selection, extractions>>

\* utils.py:166-169: the themes cell after get_random_theme has looked at it
ThemesCellAfterLookup(category) ==
    IF ~Truthy(Items(category, "themes")) THEN PoolRef ELSE state[category]["themes"]

\* utils.py:166-170: the list random.choice draws from
ThemeChoices(category) ==
    IF ~Truthy(Items(category, "themes")) THEN pools[category]
    ELSE Items(category, "themes")

\* utils.py:181-182 with 158-170 and 69-115: an empty questions cell; a theme
\* is drawn and get_list issues its calls.  random.choice raises IndexError
\* on an empty list.  With no prompt selected get_list goes on without
\* waiting.
StartRegeneration(t) ==
    /\ pc[t] = "locked"
    /\ call[t].item_type = "questions"
    /\ ~Truthy(Items(call[t].category, "questions"))
    /\ state' = [state EXCEPT ![call[t].category]["themes"] =
                    ThemesCellAfterLookup(call[t].category)]
    /\ IF ThemeChoices(call[t].category) = <<>>
       THEN /\ pc' = [pc EXCEPT ![t] = "release"]
            /\ result' = [result EXCEPT ![t] = Raised("IndexError")]
            /\ UNCHANGED fetch
       ELSE /\ \E n \in 1..Len(ThemeChoices(call[t].category)) :
                  /\ fetch' = [fetch EXCEPT ![t] =
                         StartFetch(ThemeChoices(call[t].category)[n],
                                    SelectedPrompts(ListType(call[t].category),
                                                    call[t].num_questions_needed,
                                                    ThemeChoices(call[t].category)[n]))]
                  /\ pc' = [pc EXCEPT ![t] =
                         IF fetch'[t].selected_prompts = <<>> THEN "process" ELSE "gather"]
            /\ UNCHANGED result
    /\ UNCHANGED <<pools, list_update_lock, call, loaded>>
    /\ UNCHANGED <<textVars, selection, extractions>>

\* utils.py:115: the responses gather returns once every call has returned
Gathered(f) ==
    [f EXCEPT !.responses = [j \in 1..Len(f.calls) |-> f.calls[GatherIndex(f, j)].response],
              !.calls = <<>>]

\* get_list's locals once call i of the gather has moved to c
AfterCall(f, i, c) ==
    [f EXCEPT !.calls[i] = c, !.order = IF c.done THEN Append(@, i) ELSE @]

\* the state of get_list once call i of the gather has moved to c
AfterInitialCall(t, i, c) ==
    IF \A j \in 1..Len(fetch[t].calls) : AfterCall(fetch[t], i, c).calls[j].done
    THEN /\ fetch' = [fetch EXCEPT ![t] = Gathered(AfterCall(fetch[t], i, c))]
         /\ pc' = [pc EXCEPT ![t] = "process"]
    ELSE /\ fetch' = [fetch EXCEPT ![t] = AfterCall(fetch[t], i, c)]
         /\ pc' = pc

\* utils.py:115 with 323-331: an attempt of one of the gathered calls succeeds
InitialReply(t, i, reply) ==
    /\ pc[t] = "gather"
    /\ i \in 1..Len(fetch[t].calls)
    /\ ~fetch[t].calls[i].done
    /\ AfterInitialCall(t, i, AttemptSucceeds(fetch[t].calls[i], reply))
    /\ UNCHANGED <<state, pools, list_update_lock, call, result, loaded>>
    /\ UNCHANGED <<textVars, selection, extractions>>

\* utils.py:115 with 333-337: an attempt of one of the gathered calls fails
InitialFailure(t, i) ==
    /\ pc[t] = "gather"
    /\ i \in 1..Len(fetch[t].calls)
    /\ ~fetch[t].calls[i].done
    /\ AfterInitialCall(t, i, AttemptFails(fetch[t].calls[i]))
    /\ UNCHANGED <<state, pools, list_update_lock, call, result, loaded>>
    /\ UNCHANGED <<textVars, selection, extractions>>

\* utils.py:118-126: get_list's locals once the response at hand has been
\* extracted; without a list the first retry call is issued
AfterResponse(f, extracted_list) ==
    IF Truthy(extracted_list)
    THEN [f EXCEPT !.extracted_lists = @ \o extracted_list,
                   !.origins = @ \o [j \in 1..Len(extracted_list) |-> GatherIndex(f, f.i)],
                   !.via = @ \o [j \in 1..Len(extracted_list) |-> "initial"],
                   !.responses = Tail(@),
                   !.i = f.i + 1]
    ELSE [f EXCEPT !.responses = Tail(@), !.retry = 0, !.rcall = NewRetryCall]

\* utils.py:118-126: the next response of the gather is processed
ProcessResponse(t) ==
    /\ pc[t] = "process"
    /\ fetch[t].i <= Len(fetch[t].selected_prompts)
    /\ fetch' = [fetch EXCEPT ![t] =
                    AfterResponse(fetch[t], Extract(Head(fetch[t].responses)))]
    /\ pc' = [pc EXCEPT ![t] = IF fetch'[t].rcall.done THEN "process" ELSE "retry"]
    /\ UNCHANGED <<state, pools, list_update_lock, call, result, loaded>>
    /\ UNCHANGED <<textVars, selection, extractions>>

\* the state of get_list once the retry call in flight has moved to c
AfterRetryCall(t, c) ==
    /\ fetch' = [fetch EXCEPT ![t] =
                    IF c.done THEN AfterRetry(fetch[t], c.response)
                    ELSE [fetch[t] EXCEPT !.rcall = c]]
    /\ pc' = [pc EXCEPT ![t] = IF fetch'[t].rcall.done THEN "process" ELSE "retry"]

\* utils.py:130 with 323-331: an attempt of the retry call succeeds
RetryReply(t, reply) ==
    /\ pc[t] = "retry"
    /\ AfterRetryCall(t, AttemptSucceeds(fetch[t].rcall, reply))
    /\ UNCHANGED <<state, pools, list_update_lock, call, result, loaded>>
    /\ UNCHANGED <<textVars, selection, extractions>>

\* utils.py:130 with 333-337: an attempt of the retry call fails
RetryFailure(t) ==
    /\ pc[t] = "retry"
    /\ AfterRetryCall(t, AttemptFails(fetch[t].rcall))
    /\ UNCHANGED <<state, pools, list_update_lock, call, result, loaded>>
    /\ UNCHANGED <<textVars, selection, extractions>>

\* utils.py:144-148, 163 and 182-184: get_list returns, get_items returns
\* what it returned, the cell is set to it, and len(items) raises TypeError
\* when it is None
FinishRegeneration(t) ==
    /\ pc[t] = "process"
    /\ fetch[t].i > Len(fetch[t].selected_prompts)
    /\ fetch' = [fetch EXCEPT ![t].finished = TRUE,
                              ![t].returned = GetListResult(fetch[t].extracted_lists)]
    /\ state' = [state EXCEPT ![call[t].category][call[t].item_type] =
                    fetch'[t].returned]
    /\ IF fetch'[t].returned = NoneList
       THEN /\ pc' = [pc EXCEPT ![t] = "release"]
            /\ result' = [result EXCEPT ![t] = Raised("TypeError")]
       ELSE /\ pc' = [pc EXCEPT ![t] = "pop"]
            /\ UNCHANGED result
    /\ UNCHANGED <<pools, list_update_lock, call, loaded>>
    /\ UNCHANGED <<textVars, selection, extractions>>

\* utils.py:186-188
Pop(t) ==
    /\ pc[t] = "pop"
    /\ PopFrom(t, call[t].category, call[t].item_type)
    /\ pc' = [pc EXCEPT ![t] = "release"]
    /\ UNCHANGED <<list_update_lock, call, fetch, loaded>>
    /\ UNCHANGED <<textVars, selection, extractions>>

\* an exit from the async with block that releases the lock on a return
\* only (the fault LockReleasedOnError excludes)
ReleaseOnReturn(t) ==
    /\ pc[t] = "release"
    /\ list_update_lock' = IF result[t].outcome = "returned" THEN NoTask ELSE t
    /\ pc' = [pc EXCEPT ![t] = "done"]
    /\ fetch' = [fetch EXCEPT ![t] = NoFetch]
    /\ call' = [call EXCEPT ![t].num_questions_needed = 0]
    /\ UNCHANGED <<state, pools, result, loaded>>
    /\ UNCHANGED <<textVars, selection, extractions>>

\* utils.py:174, 190: the lock is released on leaving the async with block,
\* by a return and by an exception alike
Release(t) ==
    /\ pc[t] = "release"
    /\ list_update_lock' = NoTask
    /\ pc' = [pc EXCEPT ![t] = "done"]
    /\ fetch' = [fetch EXCEPT ![t] = NoFetch]
    /\ call' = [call EXCEPT ![t].num_questions_needed = 0]
    /\ UNCHANGED <<state, pools, result, loaded>>
    /\ UNCHANGED <<textVars, selection, extractions>>

(***************************************************************************)
(* Specifications                                                          *)
(***************************************************************************)

\* utils.py:32-35: the state when there is no state file
DefaultState ==
    [category \in Categories |-> [item_type \in Kinds |-> NoneList]]

\* utils.py:26-29: states read from a state file: one cell holds a list
LoadedStates ==
    {[DefaultState EXCEPT !["text"][item_type] = Stock(n)] :
        item_type \in Kinds, n \in {0, NumTasks}}

QueueInit(s) ==
    /\ state = s
    /\ loaded = s
    /\ pools = DefaultThemes
    /\ list_update_lock = NoTask
    /\ pc = [t \in Tasks |-> "idle"]
    /\ call = [t \in Tasks |-> NoCall]
    /\ fetch = [t \in Tasks |-> NoFetch]
    /\ result = [t \in Tasks |-> NoResult]

InitWith(s) ==
    /\ TextInit(NoInput) /\ QueueInit(s) /\ selection = NoSelection
    /\ extractions = Extractions

Init == InitWith(DefaultState)

InitLoaded == \E s \in LoadedStates : InitWith(s)

Next ==
    \/ \E t \in Tasks, category \in Categories \cup {InvalidCategory},
          n \in NeededValues : get_question(t, category, n)
    \/ \E t \in Tasks, category \in Categories :
          update_counters_and_get_new_list(t, category, "themes", ThemesNeeded)
    \/ \E t \in Tasks : Acquire(t)
    \/ \E t \in Tasks : FoundItems(t)
    \/ \E t \in Tasks : RefillThemes(t)
    \/ \E t \in Tasks : StartRegeneration(t)
    \/ \E t \in Tasks : \E i \in 1..Len(fetch[t].calls), reply \in ProviderReplies :
          InitialReply(t, i, reply)
    \/ \E t \in Tasks : \E i \in 1..Len(fetch[t].calls) : InitialFailure(t, i)
    \/ \E t \in Tasks : ProcessResponse(t)
    \/ \E t \in Tasks, reply \in ProviderReplies : RetryReply(t, reply)
    \/ \E t \in Tasks : RetryFailure(t)
    \/ \E t \in Tasks : FinishRegeneration(t)
    \/ \E t \in Tasks : Pop(t)
    \/ \E t \in Tasks : Release(t)

Spec == Init /\ [][Next]_vars

SpecLoaded == InitLoaded /\ [][Next]_vars

\* a step of a call that has been made: the event loop runs every coroutine
\* that can go on, and every attempt at the provider returns or fails
Running == Next /\ ~(\E t \in Tasks : pc[t] = "idle" /\ pc'[t] # "idle")

SpecFair == Spec /\ WF_vars(Running)

(***************************************************************************)
(* The extractor applied to texts: preprocess_string and                   *)
(* extract_python_list are pure; a text is drawn, then each is applied.    *)
(***************************************************************************)

\* longest text drawn character by character
MaxLen == 3

\* most items of a bracketed or numbered list that is written out
MaxItems == 2

\* the characters texts are drawn from
Alphabet == {"[", "]", QUOTE, APOS, ",", " ", "#", "a", "1", ".", "\n", "\t", "_"}

\* every sequence of at most n members of pool
UpTo(pool, n) == UNION {[1..k -> pool] : k \in 0..n}

\* the elements bracketed lists are written with: plain words, a leading
\* space, a contraction, a contraction after a '#', and the text of the
\* placeholder of utils.py:203
Elements ==
    {<<"a">>, <<"c", " ", "d">>, <<" ", "a">>, <<"d", APOS, "a">>,
     <<"#", "d", APOS, "a">>, placeholder}

COMMENT == <<"#", " ", "c", "\n">>

\* what is written before the list, inside its brackets, between two
\* elements, and after the list: whitespace and comments
Layouts ==
    {<<>>, <<" ">>, COMMENT}
        \X {<<>>, <<" ">>}
        \X {<<",", " ">>, <<" ", ",", "\n">>, <<",", " ">> \o COMMENT}
        \X {<<>>, <<" ">>, <<" ", "#", " ", "c">>}

\* the layout of a list as preprocess_string returns it
PlainLayout == << <<>>, <<>>, <<",", " ">>, <<>> >>

RECURSIVE Join(_, _)
\* sep.join(parts)
Join(parts, sep) ==
    IF parts = <<>> THEN <<>>
    ELSE IF Len(parts) = 1 THEN parts[1]
    ELSE parts[1] \o sep \o Join(Tail(parts), sep)

\* items as a bracketed list of double-quoted elements in the layout
BracketedList(items, layout) ==
    layout[1] \o <<"[">> \o layout[2]
        \o Join([i \in 1..Len(items) |-> <<QUOTE>> \o items[i] \o <<QUOTE>>], layout[3])
        \o layout[2] \o <<"]">> \o layout[4]

\* the segments numbered lists are written with
Segments == {<<"a">>, <<" ", "a", " ">>, <<" ">>, <<"a", " ", "c">>}

\* items as a numbered list: "1.", the whitespace character, the first
\* item, "2.", and so on
NumberedList(items, space) ==
    Join([i \in 1..Len(items) |->
             <<IF i = 1 THEN "1" ELSE IF i = 2 THEN "2" ELSE "3", ".">>
                 \o space \o items[i]],
         <<>>)

TextInputs ==
    {[kind |-> "text", items |-> <<>>, layout |-> <<>>, text |-> t] :
        t \in UpTo(Alphabet, MaxLen)}

ListInputs ==
    {[kind |-> "list", items |-> l, layout |-> y, text |-> BracketedList(l, y)] :
        l \in UpTo(Elements, MaxItems), y \in Layouts}

NumberedInputs ==
    {[kind |-> "numbered", items |-> l, layout |-> sp, text |-> NumberedList(l, sp)] :
        l \in UpTo(Segments, MaxItems) \ {<<>>}, sp \in {<<" ">>, <<"\n">>}}

\* items as a bracketed list with a comment between the opening bracket and
\* the first element
CommentedList(items) ==
    <<"[", "#", " ", "c", " ">>
        \o Join([i \in 1..Len(items) |-> <<QUOTE>> \o items[i] \o <<QUOTE>>],
                <<",", " ">>)
        \o <<"]">>

CommentedInputs ==
    {[kind |-> "commented", items |-> l, layout |-> <<>>, text |-> CommentedList(l)] :
        l \in UpTo(Elements, MaxItems) \ {<<>>}}

Inputs == TextInputs \cup ListInputs \cup NumberedInputs \cup CommentedInputs

\* utils.py:201-285: preprocess_string(text) is called
ApplyPreprocess ==
    /\ written.kind # "none"
    /\ normalized = NotRun
    /\ processed_text' = FixQuotes(text)
    /\ no_comments_text' = StripComments(FixQuotes(text), 1, FALSE, <<>>)
    /\ normalized' = preprocess_string(text)
    /\ UNCHANGED <<text, written, renormalized, extracted>>
    /\ UNCHANGED <<queueVars, selection, extractions>>

\* utils.py:201-285: preprocess_string is called on what it returned
ApplyPreprocessAgain ==
    /\ normalized \notin {NotRun, IndexError}
    /\ renormalized = NotRun
    /\ renormalized' = preprocess_string(normalized)
    /\ UNCHANGED <<text, written, processed_text, no_comments_text, normalized,
                   extracted>>
    /\ UNCHANGED <<queueVars, selection, extractions>>

\* utils.py:294-316: extract_python_list(text) is called
ApplyExtract ==
    /\ written.kind # "none"
    /\ extracted = NotRunList
    /\ extracted' = extract_python_list(text)
    /\ UNCHANGED <<text, written, processed_text, no_comments_text, normalized,
                   renormalized>>
    /\ UNCHANGED <<queueVars, selection, extractions>>

InitText ==
    /\ QueueInit(DefaultState)
    /\ \E input \in Inputs : TextInit(input)
    /\ selection = NoSelection
    /\ extractions = Extractions

NextText == ApplyPreprocess \/ ApplyPreprocessAgain \/ ApplyExtract

SpecText == InitText /\ [][NextText]_vars

(***************************************************************************)
(* get_list called on its own, up to the calls it creates                  *)
(* (utils.py:69-113)                                                       *)
(***************************************************************************)

\* the quantities asked for reach this many batches of image prompts
MaxBatches == 2

\* the quantity that asks for every prompt of the pool
CapQuantity == Cardinality(question_pool) * prompts_in_question("text_questions")

Quantities ==
    (0..(MaxBatches * prompts_in_question("images_questions") + 1))
        \cup {CapQuantity - 1, CapQuantity, CapQuantity + 1, 2 * CapQuantity}

SelectInputs ==
    {[NoSelection EXCEPT !.list_type = list_type, !.num_questions_needed = n,
                         !.theme = theme, !.shuffle = shuffle] :
        list_type \in {"text_questions", "images_questions"}, n \in Quantities,
        theme \in {NoneStr, <<"a">>}, shuffle \in Shuffles}

\* utils.py:82-113: the prompts are selected and one call is created for each
SelectPrompts ==
    /\ selection.list_type # ""
    /\ ~selection.selected
    /\ selection' =
           [selection EXCEPT
               !.selected = TRUE,
               !.selected_prompts =
                   SelectedPrompts(selection.list_type,
                                   selection.num_questions_needed, selection.theme),
               !.tasks =
                   StartFetch(selection.theme,
                              SelectedPrompts(selection.list_type,
                                              selection.num_questions_needed,
                                              selection.theme)).calls]
    /\ UNCHANGED <<queueVars, textVars, extractions>>

InitSelect ==
    /\ QueueInit(DefaultState)
    /\ TextInit(NoInput)
    /\ selection \in SelectInputs
    /\ extractions = Extractions

NextSelect == SelectPrompts

SpecSelect == InitSelect /\ [][NextSelect]_vars

(***************************************************************************)
(* The queue: delivery, regeneration, the lock                             *)
(***************************************************************************)

\* task t has called update_counters_and_get_new_list on the cell
TakesFrom(t, category, item_type) ==
    /\ pc[t] # "idle"
    /\ call[t].category = category
    /\ call[t].item_type = item_type

\* the cell was loaded with one item per task, and every call made so far is
\* a take from it
StockedForAll(category, item_type) ==
    /\ loaded[category][item_type] # NoneList
    /\ Len(loaded[category][item_type]) = NumTasks
    /\ \A t \in Tasks : pc[t] = "idle" \/ TakesFrom(t, category, item_type)

Regenerating(t) == pc[t] \in {"gather", "process", "retry"}

\* C1: when every task takes from one cell that was loaded with exactly one
\* item per task, then under every interleaving no task regenerates, every
\* task that has taken got the item at a position of the loaded list, no two
\* tasks got the same position, and the cell is None once all have finished.
ExactlyOnce ==
    \A category \in Categories, item_type \in Kinds :
        StockedForAll(category, item_type) =>
            /\ \A t \in Tasks : ~Regenerating(t) /\ fetch[t] = NoFetch
            /\ \A t \in Tasks : pc[t] \in {"release", "done"} =>
                  /\ result[t].outcome = "returned"
                  /\ result[t].index \in 1..NumTasks
                  /\ result[t].value = loaded[category][item_type][result[t].index]
            /\ \A t, u \in Tasks :
                  (t # u /\ result[t].outcome = "returned" /\ result[u].outcome = "returned")
                      => result[t].index # result[u].index
            /\ (\A t \in Tasks : pc[t] = "done") => state[category][item_type] = NoneList

\* every task has taken from the stocked questions cell and has finished
ExactlyOnceReached ==
    /\ StockedForAll("text", "questions")
    /\ \A t \in Tasks : pc[t] = "done"
    /\ {result[t].index : t \in Tasks} = 1..NumTasks

\* C2: no regeneration finishes with get_list having returned None: the
\* regeneration goes on with another theme until a fetch returns a list.
RegenerationEndsWithList ==
    \A t \in Tasks : fetch[t].finished => fetch[t].returned # NoneList

\* C3: a call with a valid category that has completed has returned a string:
\* it has neither raised nor returned None.
CompletedCallReturnsString ==
    \A t \in Tasks :
        (pc[t] = "done" /\ call[t].category \in Categories) =>
            /\ result[t].outcome = "returned"
            /\ result[t].value # NoneStr

\* C4: from the default state, whenever the lock is free each cell refers to
\* None or to a non-empty list, never to an empty list.
NoEmptyListCell ==
    LockFree =>
        \A category \in Categories, item_type \in Kinds :
            Items(category, item_type) # <<>>

\* the tasks between acquiring the lock and releasing it
InCriticalSection ==
    {t \in Tasks : pc[t] \in {"locked", "gather", "process", "retry", "pop", "release"}}

\* C5: at most one task is between the emptiness check and the release, that
\* task holds the lock, at most one regeneration is in flight, and while a
\* task regenerates its cell the cell stays empty: nobody else stores into it,
\* and a task that was waiting checks the cell only after the list is stored.
OneRegenerationInFlight ==
    /\ Cardinality(InCriticalSection) <= 1
    /\ \A t \in InCriticalSection : list_update_lock = t
    /\ Cardinality({t \in Tasks : Regenerating(t)}) <= 1
    /\ \A t \in Tasks :
          (Regenerating(t) /\ ~fetch[t].finished)
              => ~Truthy(Items(call[t].category, call[t].item_type))
    /\ \A t \in Tasks : pc[t] \in {"idle", "acquire", "done"} => list_update_lock # t

\* one task regenerates a cell while another waits for the lock to take from
\* the same cell
SecondCallerWaits ==
    \E t, u \in Tasks :
        /\ t # u
        /\ pc[t] = "gather"
        /\ pc[u] = "acquire"
        /\ call[u] = call[t]

\* C6: every step that changes a cell of state or a default pool list is
\* taken by the task that holds the lock, which holds it before and after.
WritesUnderLock ==
    [][(state' # state \/ pools' # pools) =>
          \E t \in Tasks :
              /\ list_update_lock = t
              /\ list_update_lock' = t
              /\ pc'[t] # pc[t]]_vars

\* a task that still holds the lock has cached the theme pool, stored a
\* fetched list and popped an item of it
WritesMade ==
    \E t \in Tasks :
        /\ list_update_lock = t
        /\ pc[t] = "release"
        /\ result[t].outcome = "returned"
        /\ fetch[t].finished
        /\ state[call[t].category]["themes"] = PoolRef
        /\ Truthy(state[call[t].category]["questions"])

(***************************************************************************)
(* get_list and call_openai                                                *)
(***************************************************************************)

\* C7: in the list get_list builds and returns, the elements extracted for
\* prompt i come before those extracted for prompt j whenever i < j, in
\* whatever order the calls returned and whether the elements came from the
\* initial reply or from a retry.
InstructionOrder ==
    \A t \in Tasks :
        /\ \A a, b \in 1..Len(fetch[t].origins) :
              a < b => fetch[t].origins[a] <= fetch[t].origins[b]
        /\ Len(fetch[t].origins) = Len(fetch[t].extracted_lists)
        /\ (fetch[t].finished /\ fetch[t].returned # NoneList)
              => fetch[t].returned = fetch[t].extracted_lists

\* get_list has returned a list whose second call returned first, with
\* elements of the first prompt obtained by a retry before those of the second
OutOfOrderCompletion ==
    \E t \in Tasks :
        /\ fetch[t].finished
        /\ fetch[t].order = <<2, 1>>
        /\ fetch[t].origins = <<1, 1, 2, 2>>
        /\ fetch[t].via = <<"retry", "retry", "initial", "initial">>

\* C8: get_list returns None exactly when no element was collected from any
\* prompt; otherwise it returns the collected elements, a non-empty list; it
\* never returns an empty list.
AbsentIffNothingCollected ==
    \A t \in Tasks :
        fetch[t].finished =>
            /\ fetch[t].returned = NoneList <=> fetch[t].origins = <<>>
            /\ fetch[t].returned # <<>>
            /\ fetch[t].returned # NoneList =>
                  /\ fetch[t].returned = fetch[t].extracted_lists
                  /\ Len(fetch[t].returned) = Len(fetch[t].origins)
                  /\ Len(fetch[t].returned) > 0

\* of two prompts the first has used up its retries without a list, and
\* get_list has returned the elements of the second
OneInstructionExhausted ==
    \E t \in Tasks :
        /\ fetch[t].finished
        /\ Len(fetch[t].selected_prompts) = 2
        /\ fetch[t].origins = <<2, 2>>
        /\ fetch[t].returned # NoneList

\* the retry rounds made for the prompt at hand, the one in flight included
RetryRounds(t) == IF pc[t] = "retry" THEN fetch[t].retry + 1 ELSE 0

DoneAfter(t, i) == fetch'[t].calls = <<>> \/ fetch'[t].calls[i].done

ResponseAfter(t, i) ==
    IF fetch'[t].calls = <<>> THEN fetch'[t].responses[i]
    ELSE fetch'[t].calls[i].response

\* C10: a call that is in flight has failed at most once, so the attempt
\* under way is at most its second; a call that has returned makes no further
\* attempt and keeps its response; a call returns None only when its second
\* attempt fails; and no attempt, failed or not, makes the task raise.
TwoProviderAttempts ==
    /\ [](\A t \in Tasks :
            /\ ~fetch[t].rcall.done => fetch[t].rcall.failed < 2
            /\ \A i \in 1..Len(fetch[t].calls) :
                  ~fetch[t].calls[i].done => fetch[t].calls[i].failed < 2)
    /\ [][\A t \in Tasks :
            (pc[t] = "gather" /\ fetch'[t] # fetch[t]) =>
                /\ result'[t] = result[t]
                /\ pc'[t] \in {"gather", "process"}
                /\ \A i \in 1..Len(fetch[t].calls) :
                      IF fetch[t].calls[i].done
                      THEN /\ DoneAfter(t, i)
                           /\ ResponseAfter(t, i) = fetch[t].calls[i].response
                      ELSE /\ (DoneAfter(t, i) /\ ResponseAfter(t, i) = NoneStr)
                                 => fetch[t].calls[i].failed = 1
                           /\ (DoneAfter(t, i) /\ ResponseAfter(t, i) # NoneStr)
                                 => ResponseAfter(t, i) \in ProviderReplies
                           /\ ~DoneAfter(t, i) =>
                                 fetch'[t].calls[i].failed \in
                                    {fetch[t].calls[i].failed,
                                     fetch[t].calls[i].failed + 1}]_vars

\* of two gathered calls one has failed twice and returned None, the other
\* has returned a reply
BothAttemptsFailed ==
    \E t \in Tasks :
        /\ pc[t] = "process"
        /\ fetch[t].responses = <<NoneStr, ReplyList>>

(***************************************************************************)
(* The extractor: failures, round trip, idempotence                        *)
(***************************************************************************)

\* extract_python_list took the bracket path and the literal evaluation of
\* the span found in the normalized text failed
LiteralParseFailed ==
    /\ MarkerEnd(text, 1) = 0
    /\ normalized \notin {NotRun, IndexError}
    /\ SearchFrom(normalized, 1)[1] # 0
    /\ ~ParseElements(
           <<"[">> \o SubSeq(normalized, SearchFrom(normalized, 1)[1] + 1,
                             SearchFrom(normalized, 1)[2] - 1) \o <<"]">>,
           2, <<>>).ok

\* C11: extract_python_list raises nothing to its caller: what it returns is
\* never the exception of preprocess_string, and when preprocess_string
\* raises or the literal evaluation fails it returns None.
ExtractNeverRaises ==
    extracted # NotRunList =>
        /\ extracted # <<IndexError>>
        /\ (normalized = IndexError /\ MarkerEnd(text, 1) = 0) => extracted = NoneList
        /\ LiteralParseFailed => extracted = NoneList

\* preprocess_string raised on a well-formed list followed by a space, and
\* extract_python_list returned None
NormalizerFailureAbsorbed ==
    /\ written.kind = "list"
    /\ written.items = << <<"a">> >>
    /\ normalized = IndexError
    /\ extracted = NoneList

\* C12: preprocess_string returns a string for every text; it never raises.
PreprocessTotal == normalized # IndexError

\* neither kind of quote and no bracket
Plain(item) == \A i \in 1..Len(item) : item[i] \notin {QUOTE, APOS, "[", "]"}

\* C13: a list of plain strings written as a bracketed list of double-quoted
\* elements, with whitespace and comments before it, between its elements
\* and after it, is extracted as the same list.
RoundTrip ==
    (/\ written.kind = "list"
     /\ \A i \in 1..Len(written.items) : Plain(written.items[i])
     /\ extracted # NotRunList)
        => extracted = written.items

RECURSIVE QuotedItemsFrom(_, _)

\* the element whose closing quote is at e is followed by the closing
\* bracket that ends s, or by ", " and further elements
ItemClosedAt(s, e) ==
    /\ e # 0
    /\ \/ (e + 1 = Len(s) /\ s[e + 1] = "]")
       \/ (StartsWithAt(s, e + 1, <<",", " ">>) /\ QuotedItemsFrom(s, e + 3))

\* from index i, s holds double-quoted strings separated by ", " and then
\* the closing bracket
QuotedItemsFrom(s, i) ==
    /\ i <= Len(s)
    /\ s[i] = QUOTE
    /\ ItemClosedAt(s, Find(s, QUOTE, i + 1))

\* s is a bracketed list of double-quoted strings separated by ", "
IsQuotedList(s) ==
    /\ Len(s) >= 2
    /\ s[1] = "["
    /\ (s = <<"[", "]">> \/ QuotedItemsFrom(s, 2))

\* C14: a string that preprocess_string has returned and that is a bracketed
\* list of double-quoted strings separated by ", " is returned unchanged when
\* preprocess_string is applied to it.
NormalizedListStable ==
    (renormalized # NotRun /\ IsQuotedList(normalized))
        => renormalized = normalized

\* the segments of a numbered list as they are to be returned: each trimmed,
\* the ones that are empty after trimming left out
TrimmedSegments(items) ==
    SelectSeq([i \in 1..Len(items) |-> Strip(items[i])], LAMBDA item : item # <<>>)

\* C15: from a text that starts with a numbered-list marker
\* extract_python_list returns the segments between the markers in order,
\* each trimmed, and every element returned is a non-empty string.
NumberedSegments ==
    (written.kind = "numbered" /\ extracted # NotRunList)
        => /\ extracted = TrimmedSegments(written.items)
           /\ \A i \in 1..Len(extracted) : extracted[i] # <<>>

\* neither bracket occurs in text
NoBrackets(t) == \A i \in 1..Len(t) : t[i] \notin {"[", "]"}

\* C16: for a text without '[' and without ']' that does not start with a
\* numbered-list marker extract_python_list returns None: not the exception
\* of preprocess_string and not the empty list.
NoListGivesNone ==
    (extracted # NotRunList /\ NoBrackets(text) /\ MarkerEnd(text, 1) = 0)
        => extracted = NoneList /\ extracted # <<>> /\ extracted # <<IndexError>>

\* a text of quotes and letters without brackets was answered with None
ProseAnsweredNone ==
    /\ text = <<QUOTE, "a", QUOTE>>
    /\ extracted = NoneList

\* task t leaves get_question with ValueError in this step
Rejects(t) ==
    /\ result'[t] = Raised("ValueError")
    /\ pc'[t] = "done"
    /\ list_update_lock # t
    /\ fetch[t] = NoFetch
    /\ UNCHANGED <<state, pools, list_update_lock, fetch, call>>

\* C17: a call either carries one of the categories text and images on to
\* the lock, or it ends in the same step with ValueError: the caller does
\* not hold and does not take the lock, it has issued and issues no
\* provider call, and the state, the pools and the lock are left as they
\* were.
InvalidCategoryRejected ==
    [][\A t \in Tasks :
          (pc[t] = "idle" /\ pc'[t] # "idle")
              => \/ (pc'[t] = "acquire" /\ call'[t].category \in Categories)
                 \/ Rejects(t)]_vars

\* a call with an invalid category has ended with ValueError while another
\* task holds the lock and is regenerating
RejectedDuringRegeneration ==
    \E t, u \in Tasks :
        /\ result[t] = Raised("ValueError")
        /\ pc[t] = "done"
        /\ call[t] = NoCall
        /\ list_update_lock = u
        /\ Regenerating(u)

\* task t, which holds the lock and found the themes cell empty, goes on in
\* this step
LeavesEmptyThemes(t) ==
    /\ call[t].item_type = "themes"
    /\ pc[t] = "locked"
    /\ pc'[t] # "locked"
    /\ ~Truthy(Items(call[t].category, "themes"))

\* C18: a task that takes a theme never has calls of get_list or of the
\* provider and never is in get_list, and when it finds the themes cell
\* empty the cell is set to the default theme pool of the category.
ThemesNeverFetched ==
    [][\A t \in Tasks :
          /\ call'[t].item_type = "themes"
                => (fetch'[t] = NoFetch
                    /\ pc'[t] \notin {"gather", "process", "retry"})
          /\ LeavesEmptyThemes(t)
                => state'[call[t].category]["themes"] = PoolRef]_vars

\* a task that takes a theme found the cell empty, and holds the lock with
\* the cell set to the default pool, no call made
ThemesRefilledFromPool ==
    \E t \in Tasks :
        /\ call[t].item_type = "themes"
        /\ pc[t] = "pop"
        /\ list_update_lock = t
        /\ state[call[t].category]["themes"] = PoolRef
        /\ loaded[call[t].category]["themes"] # PoolRef
        /\ fetch[t] = NoFetch

\* C19: the default theme pools hold the elements they held at process
\* start, in the same order.
PoolsReadOnly == pools = DefaultThemes

\* the number of occurrences of ch in s
CountChar(s, ch) == Len(SelectSeq(s, LAMBDA x : x = ch))

\* pat occurs in s
Contains(s, pat) == \E i \in 1..Len(s) : StartsWithAt(s, i, pat)

\* out is t with every single quote that is not between two word characters
\* turned into a double quote, and nothing else changed
QuotesFixed(t, out) ==
    /\ Len(out) = Len(t)
    /\ \A i \in 1..Len(t) :
          out[i] = IF t[i] # APOS THEN t[i]
                   ELSE IF ApostropheInWord(t, i) THEN APOS
                   ELSE QUOTE

RECURSIVE Sum(_)
\* the sum of a sequence of numbers
Sum(ns) == IF ns = <<>> THEN 0 ELSE Head(ns) + Sum(Tail(ns))

\* the apostrophes between two word characters in item
WordApostrophes(item) ==
    Cardinality({i \in 1..Len(item) : ApostropheInWord(item, i)})

\* those of them that no '#' precedes in item
WordApostrophesOutsideComments(item) ==
    Cardinality({i \in 1..Len(item) :
                    /\ ApostropheInWord(item, i)
                    /\ \A j \in 1..(i - 1) : item[j] # "#"})

\* preprocess_string has returned a string for a written list, and the
\* text does not hold the placeholder
ListNormalized ==
    /\ written.kind = "list"
    /\ normalized \notin {NotRun, IndexError}
    /\ ~Contains(text, placeholder)

\* the quote step of preprocess_string has run on a text without the
\* placeholder
QuoteStepDone == processed_text # NotRun /\ ~Contains(text, placeholder)

\* C20 as stated: the quote step keeps exactly the single quotes between two
\* word characters and turns every other one into a double quote, and every
\* apostrophe between two word characters of a quoted list element is an
\* apostrophe of the string preprocess_string returns.
ContractionSafe ==
    /\ QuoteStepDone => QuotesFixed(RemoveChar(text, "\t"), processed_text)
    /\ ListNormalized
          => CountChar(normalized, APOS)
                 = Sum([i \in 1..Len(written.items) |->
                           WordApostrophes(written.items[i])])

\* C20, amended: the quote step keeps exactly the single quotes between two
\* word characters and turns every other one into a double quote, and every
\* apostrophe between two word characters of a quoted list element that no
\* '#' precedes in the element is an apostrophe of the string
\* preprocess_string returns; the ones after a '#' go with the comment.
ContractionKept ==
    /\ QuoteStepDone => QuotesFixed(RemoveChar(text, "\t"), processed_text)
    /\ ListNormalized
          => CountChar(normalized, APOS)
                 = Sum([i \in 1..Len(written.items) |->
                           WordApostrophesOutsideComments(written.items[i])])

\* a list of a contraction and of a contraction after a '#' was normalized:
\* the first apostrophe is in the result, the second is not
ContractionNormalized ==
    /\ written.kind = "list"
    /\ written.items = << <<"d", APOS, "a">>, <<"#", "d", APOS, "a">> >>
    /\ normalized \notin {NotRun, IndexError}
    /\ CountChar(processed_text, APOS) = 2
    /\ CountChar(normalized, APOS) = 1

\* a '#' at or before index i of p has no double quote between it and i
InComment(p, i) ==
    \E j \in 1..i : p[j] = "#" /\ \A k \in j..i : p[k] # QUOTE

RECURSIVE Uncommented(_, _)
\* the first n characters of p without the ones in a comment
Uncommented(p, n) ==
    IF n = 0 THEN <<>>
    ELSE IF InComment(p, n) THEN Uncommented(p, n - 1)
    ELSE Append(Uncommented(p, n - 1), p[n])

\* no element holds a '#' or is the text of the placeholder
ElementsWithoutComment ==
    \A i \in 1..Len(written.items) :
        ~Contains(written.items[i], <<"#">>) /\ written.items[i] # placeholder

\* C21: the comment step of preprocess_string removes every character from
\* a '#' up to but not including the next double quote and keeps every other
\* character, that double quote included; a list written with a comment
\* between the opening bracket and the first element normalizes to the list
\* without the comment.
CommentsStripped ==
    /\ no_comments_text # NotRun
          => no_comments_text = Uncommented(processed_text, Len(processed_text))
    /\ (written.kind = "commented" /\ normalized # NotRun /\ ElementsWithoutComment)
          => normalized = BracketedList(written.items, PlainLayout)

\* the list [# c "a", "c d"] was normalized to ["a", "c d"]
CommentRemoved ==
    /\ written.kind = "commented"
    /\ written.items = << <<"a">>, <<"c", " ", "d">> >>
    /\ Len(no_comments_text) = Len(processed_text) - 4
    /\ normalized = BracketedList(written.items, PlainLayout)

\* no element of s occurs twice
Distinct(s) == \A i, j \in 1..Len(s) : i # j => s[i] # s[j]

\* m batches of size batch are just enough for n items
JustEnough(m, batch, n) == m * batch >= n /\ (m - 1) * batch < n

\* C22: get_list creates one initial call per selected prompt; for text
\* questions it selects the least number of prompts whose batches of 10
\* cover the quantity needed, 400 at most, and the prompts are pairwise
\* distinct members of the pool; for image questions it selects the least
\* number of batches of 20 that cover the quantity, all of them the same
\* prompt.
InitialInstructions ==
    selection.selected =>
        /\ Len(selection.tasks) = Len(selection.selected_prompts)
        /\ IF selection.list_type = "text_questions"
           THEN /\ IF selection.num_questions_needed > 4000
                   THEN Len(selection.selected_prompts) = 400
                   ELSE JustEnough(Len(selection.selected_prompts), 10,
                                   selection.num_questions_needed)
                /\ Distinct(selection.selected_prompts)
                /\ \A i \in 1..Len(selection.selected_prompts) :
                      /\ selection.selected_prompts[i][3] \in 1..20
                      /\ selection.selected_prompts[i][4] \in 1..20
           ELSE /\ JustEnough(Len(selection.selected_prompts), 20,
                              selection.num_questions_needed)
                /\ \A i \in 1..Len(selection.selected_prompts) :
                      selection.selected_prompts[i] = selection.selected_prompts[1]

\* more text questions were asked for than the whole pool gives, and every
\* prompt of the pool was selected
WholePoolSelected ==
    /\ selection.selected
    /\ selection.list_type = "text_questions"
    /\ selection.num_questions_needed > 4000
    /\ Len(selection.tasks) = 400

\* C23: get_list issues the first retry call for a prompt only when
\* extract_python_list returned None for the reply of that prompt's initial
\* call; a reply from which it returned a list, the empty list included, is
\* not retried.
RetryOnlyWhenAbsent ==
    [][\A t \in Tasks :
          (pc[t] = "process" /\ pc'[t] = "retry")
              => Extract(Head(fetch[t].responses)) = NoneList]_vars

\* call c is made with temperature 0.65 and the model gpt-3.5-turbo
IsInitialCall(c) == c.temperature = 65 /\ c.model = "gpt-3.5-turbo"

\* call c is made with temperature 0.85 and the model gpt-4-1106-preview
IsEscalatedCall(c) == c.temperature = 85 /\ c.model = "gpt-4-1106-preview"

\* C24: get_list creates all its initial calls in one step, each with
\* temperature 0.65 and gpt-3.5-turbo; a retry call is in flight only once
\* every initial call has returned, it is the only call of that get_list in
\* flight, it has temperature 0.85 and gpt-4-1106-preview, and the prompt
\* the retries are made for never moves back.
InitialThenEscalated ==
    [][\A t \in Tasks :
          /\ (pc[t] = "locked" /\ pc'[t] = "gather")
                => /\ Len(fetch'[t].calls) = Len(fetch'[t].selected_prompts)
                   /\ \A i \in 1..Len(fetch'[t].calls) :
                         ~fetch'[t].calls[i].done /\ fetch'[t].calls[i].failed = 0
          /\ \A i \in 1..Len(fetch'[t].calls) : IsInitialCall(fetch'[t].calls[i])
          /\ ~fetch'[t].rcall.done
                => /\ pc'[t] = "retry"
                   /\ fetch'[t].calls = <<>>
                   /\ Len(fetch'[t].order) = Len(fetch'[t].selected_prompts)
                   /\ IsEscalatedCall(fetch'[t].rcall)
          /\ (pc[t] \in {"process", "retry"} /\ pc'[t] \in {"process", "retry"})
                => fetch'[t].i >= fetch[t].i]_vars

\* a retry call for the second prompt is in flight after the retries for
\* the first prompt
SecondPromptRetried ==
    \E t \in Tasks :
        /\ pc[t] = "retry"
        /\ fetch[t].i = 2
        /\ ~fetch[t].rcall.done
        /\ fetch[t].rcall.failed = 1
        /\ fetch[t].via = <<"retry", "retry">>

\* task t, holding the lock, finds items in the cell it takes from
FindsItems(t) ==
    /\ pc[t] = "locked"
    /\ pc'[t] = "pop"
    /\ Truthy(Items(call[t].category, call[t].item_type))

\* task t pops from a cell that holds items
PopsItem(t) ==
    /\ pc[t] = "pop"
    /\ pc'[t] = "release"
    /\ Truthy(Items(call[t].category, call[t].item_type))

\* the cell of category and item_type holds the list items without its last
\* element, None when nothing is left
HoldsAllButLast(category, item_type, items) ==
    IF Len(items) = 1
    THEN state'[category][item_type] = NoneList
    ELSE Items(category, item_type)' = SubSeq(items, 1, Len(items) - 1)

\* C25: a task that finds items in its cell makes no call and changes no
\* cell before it pops, and a pop from a cell that holds k >= 1 items
\* returns the k-th of them, leaves the first k - 1 in the cell in their
\* order (None when k = 1), makes no call and changes no other cell.
CachedTake ==
    [][\A t \in Tasks :
          /\ FindsItems(t) => UNCHANGED <<state, pools, fetch, result>>
          /\ PopsItem(t)
                => /\ result'[t] =
                          Returned(Items(call[t].category, call[t].item_type)
                                       [Len(Items(call[t].category, call[t].item_type))],
                                   Len(Items(call[t].category, call[t].item_type)))
                   /\ HoldsAllButLast(call[t].category, call[t].item_type,
                                      Items(call[t].category, call[t].item_type))
                   /\ fetch' = fetch
                   /\ \A category \in Categories, item_type \in Kinds :
                         <<category, item_type>> # <<call[t].category, call[t].item_type>>
                             => state'[category][item_type] = state[category][item_type]]_vars

\* two tasks took from the loaded questions cell one after the other, with
\* no call made: the first got the last item, the second the one before it
TakenInReverseOrder ==
    \E t, u \in Tasks :
        /\ Len(loaded["text"]["questions"]) >= 2
        /\ pc[t] = "done"
        /\ result[t] = Returned(loaded["text"]["questions"]
                                    [Len(loaded["text"]["questions"])],
                                Len(loaded["text"]["questions"]))
        /\ pc[u] = "release"
        /\ fetch[u] = NoFetch
        /\ result[u].index = Len(loaded["text"]["questions"]) - 1
        /\ result[u].value = loaded["text"]["questions"][result[u].index]

\* C26: while one task regenerates a cell, every other task is before the
\* lock or has finished, whatever cell it takes from, and no other task
\* comes to return an item.
TakesWaitForRegeneration ==
    [][\A t, u \in Tasks :
          (t # u /\ Regenerating(t))
              => /\ pc[u] \in {"idle", "acquire", "done"}
                 /\ (pc[u] # "done" /\ pc'[u] = "done")
                       => result'[u].outcome = "raised"]_vars

\* a task waits for the lock to take a theme from the stocked themes cell
\* while another task regenerates the questions cell
StockedCellWaits ==
    \E t, u \in Tasks :
        /\ Regenerating(t)
        /\ call[t].item_type = "questions"
        /\ pc[u] = "acquire"
        /\ call[u].item_type = "themes"
        /\ Truthy(Items(call[u].category, "themes"))
        /\ Len(loaded[call[u].category]["themes"]) = NumTasks

\* task t leaves update_counters_and_get_new_list with an exception
EndsInError(t) ==
    /\ pc[t] = "release"
    /\ pc'[t] = "done"
    /\ result[t].outcome = "raised"

\* C27: when a take ends with an exception, the lock is free and the cell
\* holds None as the task leaves; a task that then finds the questions cell
\* empty starts a regeneration; and whenever the lock is held it comes to
\* be free, whatever the provider answers.
LockReleasedOnError ==
    /\ [][\A t \in Tasks :
             /\ EndsInError(t)
                   => /\ list_update_lock = t
                      /\ list_update_lock' = NoTask
                      /\ state'[call[t].category][call[t].item_type] = NoneList
             /\ (pc[t] = "locked" /\ pc'[t] # "locked"
                    /\ call[t].item_type = "questions"
                    /\ ~Truthy(Items(call[t].category, "questions")))
                   => (pc'[t] \in {"gather", "process"}
                       \/ result'[t] = Raised("IndexError"))]_vars
    /\ (list_update_lock # NoTask) ~> (list_update_lock = NoTask)

\* a take ended with TypeError because get_list returned None, and another
\* task has taken the lock and regenerates the same cell
RegeneratedAfterError ==
    \E t, u \in Tasks :
        /\ pc[t] = "done"
        /\ result[t] = Raised("TypeError")
        /\ call[u].category = call[t].category
        /\ call[u].item_type = call[t].item_type
        /\ list_update_lock = u
        /\ pc[u] = "gather"

\* the attempts a call can still make at the provider
CallAttemptsLeft(c) == IF c.done THEN 0 ELSE ProviderAttempts - c.failed

\* the retry calls get_list can still make: the rounds left for the prompt
\* being retried, and max_retries for each prompt not yet processed
RetryCallsLeft(f) ==
    IF f.rcall.done
    THEN max_retries * (Len(f.selected_prompts) - f.i + 1)
    ELSE (max_retries - f.retry - 1) + max_retries * (Len(f.selected_prompts) - f.i)

\* the attempts get_list can still make at the provider: those of the calls
\* in flight and ProviderAttempts for each retry call it can still make
AttemptsLeft(f) ==
    Sum([j \in 1..Len(f.calls) |-> CallAttemptsLeft(f.calls[j])])
        + CallAttemptsLeft(f.rcall) + ProviderAttempts * RetryCallsLeft(f)

\* the step is an attempt of one of t's calls at the provider
Attempt(t) == pc[t] \in {"gather", "retry"} /\ fetch'[t] # fetch[t]

\* the step makes a retry call for t
RetryCallMade(t) ==
    /\ fetch'[t] # fetch[t]
    /\ ~fetch'[t].rcall.done
    /\ fetch[t].rcall.done \/ fetch'[t].rcall.failed <= fetch[t].rcall.failed

\* C28: get_list starts with one call per selected prompt, k in all, with
\* 5k retry calls and 12k provider attempts left to it; every attempt at
\* the provider, whether it returns or fails, takes one from the attempts
\* left, every retry call takes one from the retry calls left, no step adds
\* to either and neither falls below zero; a call in flight has an attempt
\* left; and whenever a get_list is running there comes a state where none
\* is: the lock lets one run at a time, so every get_list comes to its end.
ProviderCallsBounded ==
    /\ [](\A t \in Tasks : Regenerating(t) =>
            /\ Len(fetch[t].calls) <= Len(fetch[t].selected_prompts)
            /\ RetryCallsLeft(fetch[t]) \in
                  0..(max_retries * Len(fetch[t].selected_prompts))
            /\ AttemptsLeft(fetch[t]) \in
                  0..(ProviderAttempts * (1 + max_retries) * Len(fetch[t].selected_prompts))
            /\ \A j \in 1..Len(fetch[t].calls) :
                  ~fetch[t].calls[j].done => CallAttemptsLeft(fetch[t].calls[j]) >= 1
            /\ ~fetch[t].rcall.done => CallAttemptsLeft(fetch[t].rcall) >= 1)
    /\ [][\A t \in Tasks :
            /\ (~Regenerating(t) /\ Regenerating(t)') =>
                  /\ Len(fetch'[t].calls) = Len(fetch'[t].selected_prompts)
                  /\ RetryCallsLeft(fetch'[t]) =
                        max_retries * Len(fetch'[t].selected_prompts)
                  /\ AttemptsLeft(fetch'[t]) =
                        ProviderAttempts * (1 + max_retries) * Len(fetch'[t].selected_prompts)
            /\ Regenerating(t) =>
                  /\ AttemptsLeft(fetch'[t]) <= AttemptsLeft(fetch[t])
                  /\ RetryCallsLeft(fetch'[t]) <= RetryCallsLeft(fetch[t])
                  /\ Attempt(t) => AttemptsLeft(fetch'[t]) < AttemptsLeft(fetch[t])
                  /\ RetryCallMade(t) =>
                        RetryCallsLeft(fetch'[t]) < RetryCallsLeft(fetch[t])]_vars
    /\ (\E t \in Tasks : Regenerating(t)) ~> (\A t \in Tasks : ~Regenerating(t))

\* every attempt get_list could make for two prompts has been made but the
\* last: the second attempt of the fifth retry call of the second prompt is
\* under way, and nothing has been extracted
LastAttemptUnderWay ==
    \E t \in Tasks :
        /\ pc[t] = "retry"
        /\ Len(fetch[t].selected_prompts) = 2
        /\ fetch[t].i = 2
        /\ fetch[t].extracted_lists = <<>>
        /\ AttemptsLeft(fetch[t]) = 1
        /\ RetryCallsLeft(fetch[t]) = 0

=============================================================================
